---- MODULE Spec2Model ----
(***************************************************************************)
(* Model of banner-maker-pro (src/final.py): the colour parser             *)
(* (parse_color_input, hex_to_rgb, cmyk_to_rgb), the grid plan and the     *)
(* image loading / padding / saving of merge_images, the band splice of    *)
(* add_info_band, and the folder loop of the main program.                 *)
(*                                                                         *)
(* Texts are sequences of one-character strings.  Images are sequences of  *)
(* pixel rows (every operation of add_info_band works on whole rows).      *)
(***************************************************************************)
EXTENDS Integers, Sequences, FiniteSets, TLC

VARIABLES
    \* ---- colour prompt loop (final.py 674-693)
    color_input,      \* the text read at the colour prompt
    theme_color,      \* what parse_color_input returned for it
    color_pc,         \* "typed" | "prompt" | "accepted" | "crashed"
    \* ---- grid plan of merge_images (final.py 553-577)
    total_images, image_size, include_band,
    columns, rows, image_width, image_height,
    grid_pc,          \* "args" | "planned"
    \* ---- add_info_band (final.py 480-533)
    image,            \* input image: sequence of rows
    final_image,      \* returned image: sequence of rows
    band_pc,          \* "args" | "returned"
    \* ---- the folder loop of the main program (final.py 695-718)
    folder_list,      \* per folder: the paths glob returned (TRUE = decodable)
    folder_idx,       \* position of the for loop (1-based)
    run_pc,           \* "loop" | "done" | "crashed"
    outcomes,         \* how each merge_images call so far ended
    placed_images,    \* placed_images of the last merge_images call
    dirs,             \* directories created
    disk              \* files written: records [path, data]

colorVars == <<color_input, theme_color, color_pc>>
gridVars  == <<total_images, image_size, include_band, columns, rows,
               image_width, image_height, grid_pc>>
bandVars  == <<image, final_image, band_pc>>
runVars   == <<folder_list, folder_idx, run_pc, outcomes, placed_images, dirs, disk>>
vars      == <<colorVars, gridVars, bandVars, runVars>>

(***************************************************************************)
(* Bounds of the model.                                                    *)
(***************************************************************************)
MaxHexLen  == 7    \* longest body of a hex-style text
MaxFields  == 4    \* most comma separated fields of a numeric text
MaxTextLen == 4    \* longest free text over FreeChars
MaxImages  == 30   \* largest image count given to the grid plan
MaxHeight  == 10   \* tallest image given to add_info_band
MaxFolders == 3    \* most folders in folder_list.txt
MaxPaths   == 3    \* most paths glob returns for a folder
MaxSamePaths == 4  \* most paths of a folder that is composed twice

(***************************************************************************)
(* Python string helpers, on sequences of characters.                      *)
(***************************************************************************)
Whitespace == {" "}

RECURSIVE lstrip(_, _)
lstrip(s, chars) ==
    IF Len(s) > 0 /\ Head(s) \in chars THEN lstrip(Tail(s), chars) ELSE s

RECURSIVE rstrip(_, _)
rstrip(s, chars) ==
    IF Len(s) > 0 /\ s[Len(s)] \in chars
    THEN rstrip(SubSeq(s, 1, Len(s) - 1), chars) ELSE s

strip(s) == rstrip(lstrip(s, Whitespace), Whitespace)

UpperChars == <<"A", "B", "C", "D", "E", "F", "G", "K", "M", "R", "Y">>
LowerChars == <<"a", "b", "c", "d", "e", "f", "g", "k", "m", "r", "y">>

LowerChar(c) ==
    IF \E i \in 1..Len(UpperChars) : UpperChars[i] = c
    THEN LowerChars[CHOOSE i \in 1..Len(UpperChars) : UpperChars[i] = c]
    ELSE c

lower(s) == [i \in 1..Len(s) |-> LowerChar(s[i])]

startswith(s, p) == Len(s) >= Len(p) /\ SubSeq(s, 1, Len(p)) = p

endswith(s, p) == Len(s) >= Len(p) /\ SubSeq(s, Len(s) - Len(p) + 1, Len(s)) = p

\* s[i:j] with 0-based, clipped Python slice bounds
Slice(s, i, j) ==
    LET lo == IF i > Len(s) THEN Len(s) ELSE i
        hi == IF j > Len(s) THEN Len(s) ELSE j
    IN  IF hi <= lo THEN <<>> ELSE SubSeq(s, lo + 1, hi)

RECURSIVE split(_, _)
split(s, sep) ==
    IF \E i \in 1..Len(s) : s[i] = sep
    THEN LET i == CHOOSE k \in 1..Len(s) :
                      s[k] = sep /\ \A j \in 1..(k - 1) : s[j] # sep
         IN  <<SubSeq(s, 1, i - 1)>> \o split(SubSeq(s, i + 1, Len(s)), sep)
    ELSE <<s>>

Digits == <<"0", "1", "2", "3", "4", "5", "6", "7", "8", "9",
            "a", "b", "c", "d", "e", "f">>

DigitSet(base) == {Digits[i] : i \in 1..base}

DigitValue(c) == (CHOOSE i \in 1..16 : Digits[i] = c) - 1

RECURSIVE DigitsValue(_, _)
DigitsValue(s, base) ==
    IF Len(s) = 0 THEN 0
    ELSE DigitsValue(SubSeq(s, 1, Len(s) - 1), base) * base + DigitValue(s[Len(s)])

\* int(tok, base): surrounding whitespace, one optional sign, then at least
\* one digit of the base; anything else is a ValueError.
PyInt(tok, base) ==
    LET t      == strip(tok)
        signed == Len(t) > 0 /\ t[1] \in {"+", "-"}
        body   == IF signed THEN Tail(t) ELSE t
        ok     == Len(body) > 0 /\ \A i \in 1..Len(body) : body[i] \in DigitSet(base)
        mag    == DigitsValue(body, base)
    IN  IF ok
        THEN [exc |-> "", val |-> IF signed /\ t[1] = "-" THEN 0 - mag ELSE mag]
        ELSE [exc |-> "ValueError", val |-> 0]

\* float(tok) on the tokens of the model's alphabet (no ".", exponent, inf
\* or nan): the same grammar as a decimal integer.
PyFloat(tok) == PyInt(tok, 10)

RECURSIVE NatToStr(_)
NatToStr(n) ==
    IF n < 10 THEN <<Digits[n + 1]>>
    ELSE NatToStr(n \div 10) \o <<Digits[(n % 10) + 1]>>

\* str(n) of an integer
IntToStr(n) == IF n < 0 THEN <<"-">> \o NatToStr(0 - n) ELSE NatToStr(n)

(***************************************************************************)
(* Colour parsing.                                                         *)
(***************************************************************************)
None == [kind |-> "None", rgb |-> <<>>]

Color(t) == [kind |-> "color", rgb |-> t]

Raised(e) == [kind |-> "raise", rgb |-> <<e>>]

\* hex_to_rgb without the lstrip('#')
hex_to_rgb_keep_hash(hex_color) ==
    LET parts == [n \in 1..3 |-> PyInt(Slice(hex_color, 2 * (n - 1), 2 * n), 16)]
    IN  IF \E n \in 1..3 : parts[n].exc # ""
        THEN [exc |-> "ValueError", val |-> <<>>]
        ELSE [exc |-> "", val |-> [n \in 1..3 |-> parts[n].val]]

\* hex_to_rgb: result of the three int(hex_color[i:i+2], 16)
hex_to_rgb(hex_color) ==
    LET h     == lstrip(hex_color, {"#"})
        parts == [n \in 1..3 |-> PyInt(Slice(h, 2 * (n - 1), 2 * n), 16)]
    IN  IF \E n \in 1..3 : parts[n].exc # ""
        THEN [exc |-> "ValueError", val |-> <<>>]
        ELSE [exc |-> "", val |-> [n \in 1..3 |-> parts[n].val]]

\* int(255 * (1 - x/100) * (1 - k/100)) for integral x, k in 0..100.  The
\* double product equals the exact one except for {x, k} = {0, 80}, where
\* 1 - 0.8 rounds below 0.2 and the product truncates to 50, not 51.
CmykChannel(x, k) ==
    IF {x, k} = {0, 80} THEN 50
    ELSE (255 * (100 - x) * (100 - k)) \div 10000

cmyk_to_rgb(c, m, y, k) == <<CmykChannel(c, k), CmykChannel(m, k), CmykChannel(y, k)>>

\* the exceptions the try block of parse_color_input swallows
CaughtByParse == {"ValueError", "IndexError"}

\* the rgb branches with the range check off by one (val <= 256)
RgbFromValuesUpTo256(values) ==
    IF Len(values) # 3 THEN [exc |-> "", val |-> None]
    ELSE LET p == [n \in 1..3 |-> PyInt(strip(values[n]), 10)]
         IN  IF \E n \in 1..3 : p[n].exc # ""
             THEN [exc |-> "ValueError", val |-> None]
             ELSE IF \A n \in 1..3 : 0 <= p[n].val /\ p[n].val <= 256
                  THEN [exc |-> "", val |-> Color([n \in 1..3 |-> p[n].val])]
                  ELSE [exc |-> "", val |-> None]

\* body shared by the two rgb branches (final.py 292-295 and 300-303)
RgbFromValues(values) ==
    IF Len(values) # 3 THEN [exc |-> "", val |-> None]
    ELSE LET p == [n \in 1..3 |-> PyInt(strip(values[n]), 10)]
         IN  IF \E n \in 1..3 : p[n].exc # ""
             THEN [exc |-> "ValueError", val |-> None]
             ELSE IF \A n \in 1..3 : 0 <= p[n].val /\ p[n].val <= 255
                  THEN [exc |-> "", val |-> Color([n \in 1..3 |-> p[n].val])]
                  ELSE [exc |-> "", val |-> None]

\* body shared by the two cmyk branches (final.py 309-312 and 317-320)
CmykFromValues(values) ==
    IF Len(values) # 4 THEN [exc |-> "", val |-> None]
    ELSE LET p == [n \in 1..4 |-> PyFloat(strip(values[n]))]
         IN  IF \E n \in 1..4 : p[n].exc # ""
             THEN [exc |-> "ValueError", val |-> None]
             ELSE IF \A n \in 1..4 : 0 <= p[n].val /\ p[n].val <= 100
                  THEN [exc |-> "", val |-> Color(cmyk_to_rgb(p[1].val, p[2].val,
                                                               p[3].val, p[4].val))]
                  ELSE [exc |-> "", val |-> None]

\* the if / elif chain inside the try block (final.py 285-320)
ParseBranches(t) ==
    IF startswith(t, <<"#">>)
       \/ (Len(t) = 6 /\ \A i \in 1..Len(t) : t[i] \in DigitSet(16))
    THEN LET h == hex_to_rgb(t)
         IN  IF h.exc # "" THEN [exc |-> h.exc, val |-> None]
             ELSE [exc |-> "", val |-> Color(h.val)]
    ELSE IF startswith(t, <<"r", "g", "b", "(">>) /\ endswith(t, <<")">>)
    THEN RgbFromValues(split(Slice(t, 4, Len(t) - 1), ","))
    ELSE IF (\E i \in 1..Len(t) : t[i] = ",") /\ ~startswith(t, <<"c", "m", "y", "k">>)
    THEN RgbFromValues(split(t, ","))
    ELSE IF startswith(t, <<"c", "m", "y", "k", "(">>) /\ endswith(t, <<")">>)
    THEN CmykFromValues(split(Slice(t, 5, Len(t) - 1), ","))
    ELSE IF \E i \in 1..Len(t) : t[i] = ","
    THEN CmykFromValues(split(t, ","))
    ELSE [exc |-> "", val |-> None]

parse_color_input(text) ==
    LET r == ParseBranches(lower(strip(text)))
    IN  IF r.exc = "" THEN r.val
        ELSE IF r.exc \in CaughtByParse THEN None
        ELSE Raised(r.exc)

(***************************************************************************)
(* The texts typed at the prompt.                                          *)
(***************************************************************************)
HexBodyChars == {"1", "F", "g", "-"}

NumValues == {0 - 1, 0, 80, 100, 255, 256}

FreeChars == {"#", ",", "1", "f", " ", "-"}

Wrappers == {<<>>, <<"r", "g", "b", "(">>, <<"R", "g", "b", "(">>,
             <<"c", "m", "y", "k", "(">>}

SeqsUpTo(S, n) == UNION {[1..k -> S] : k \in 0..n}

RECURSIVE Join(_)
Join(toks) ==
    IF Len(toks) = 0 THEN <<>>
    ELSE IF Len(toks) = 1 THEN toks[1]
    ELSE toks[1] \o <<",">> \o Join(Tail(toks))

Wrap(w, body) == IF w = <<>> THEN body ELSE w \o body \o <<")">>

NumText(w, vs) == Wrap(w, Join([i \in 1..Len(vs) |-> IntToStr(vs[i])]))

HexInputs == {p \o b : p \in {<<>>, <<"#">>}, b \in SeqsUpTo(HexBodyChars, MaxHexLen)}

NumInputs ==
    {NumText(w, vs) : w \in Wrappers,
                      vs \in UNION {[1..k -> NumValues] : k \in 1..MaxFields}}

FreeInputs == SeqsUpTo(FreeChars, MaxTextLen)

Examples == {<<"#", "1", "A", "2", "B", "3", "C">>,
             <<" ", "1", "a", "2", "b", "3", "c", " ">>,
             <<"r", "g", "b", "(", " ", "1", " ", ",", "2", ",", "3", " ", ")">>}

ColorInputs == HexInputs \cup NumInputs \cup FreeInputs \cup Examples

(***************************************************************************)
(* Initial values of the parts of the state.                               *)
(***************************************************************************)
ColorIdle == color_input = <<>> /\ theme_color = None /\ color_pc = "prompt"

GridIdle ==
    /\ total_images = 1 /\ image_size = 2000 /\ include_band = TRUE
    /\ columns = 0 /\ rows = 0 /\ image_width = 0 /\ image_height = 0
    /\ grid_pc = "args"

BandIdle == image = <<>> /\ final_image = <<>> /\ band_pc = "args"

RunIdle ==
    /\ folder_list = <<>> /\ folder_idx = 1 /\ run_pc = "loop"
    /\ outcomes = <<>> /\ placed_images = <<>> /\ dirs = {} /\ disk = {}

(***************************************************************************)
(* One iteration of the colour prompt loop (final.py 681-693): the text    *)
(* read by input() is parsed; an accepted colour leaves the loop, a        *)
(* rejected one returns to the prompt.                                     *)
(***************************************************************************)
ParseColor ==
    /\ color_pc = "typed"
    /\ LET c == parse_color_input(strip(color_input))
       IN  /\ theme_color' = c
           /\ color_pc' = IF c.kind = "raise" THEN "crashed"
                          ELSE IF c.kind = "color" /\ Len(c.rgb) > 0 THEN "accepted"
                          ELSE "prompt"
    /\ UNCHANGED <<color_input, gridVars, bandVars, runVars>>

InitColor ==
    /\ color_input \in ColorInputs /\ theme_color = None /\ color_pc = "typed"
    /\ GridIdle /\ BandIdle /\ RunIdle

NextColor == ParseColor

SpecColor == InitColor /\ [][NextColor]_vars

(***************************************************************************)
(* The grid plan of merge_images (final.py 553-577).                       *)
(***************************************************************************)
border_spacing == 10

image_spacing == 10

ImageSizes == {800, 1001, 2000}

Min(a, b) == IF a <= b THEN a ELSE b

\* math.ceil(math.sqrt(n))
CeilSqrt(n) == CHOOSE c \in 0..n : c * c >= n /\ \A d \in 0..(c - 1) : d * d < n

\* math.ceil(a / b)
CeilDiv(a, b) == (a + b - 1) \div b

\* int(size * 0.20)
BandArea(size) == (size * 20) \div 100

\* the column table with < in place of <=
GridColumnsStrict(n) ==
    IF n < 4 THEN 2
    ELSE IF n < 9 THEN 3
    ELSE IF n < 16 THEN 4
    ELSE CeilSqrt(n)

GridColumns(n) ==
    IF n <= 4 THEN 2
    ELSE IF n <= 9 THEN 3
    ELSE IF n <= 16 THEN 4
    ELSE CeilSqrt(n)

GridRows(n, cols) == CeilDiv(n, cols)

CellWidth(size, cols) ==
    ((size - 2 * border_spacing) - (cols - 1) * image_spacing) \div cols

\* the cell height without the band area reserved
CellHeightNoBand(size, rws, band) ==
    ((size - 2 * border_spacing) - (rws - 1) * image_spacing) \div rws

CellHeight(size, rws, band) ==
    LET plain == ((size - 2 * border_spacing) - (rws - 1) * image_spacing) \div rws
        content_height == size - BandArea(size)
    IN  IF band
        THEN Min(plain, (content_height - 2 * border_spacing
                           - (rws - 1) * image_spacing) \div rws)
        ELSE plain

PlanGrid ==
    /\ grid_pc = "args"
    /\ columns' = GridColumns(total_images)
    /\ rows' = GridRows(total_images, GridColumns(total_images))
    /\ image_width' = CellWidth(image_size, GridColumns(total_images))
    /\ image_height' = CellHeight(image_size,
                                  GridRows(total_images, GridColumns(total_images)),
                                  include_band)
    /\ grid_pc' = "planned"
    /\ UNCHANGED <<total_images, image_size, include_band, colorVars, bandVars, runVars>>

InitGrid ==
    /\ total_images \in 1..MaxImages
    /\ image_size \in ImageSizes
    /\ include_band \in BOOLEAN
    /\ columns = 0 /\ rows = 0 /\ image_width = 0 /\ image_height = 0
    /\ grid_pc = "args"
    /\ ColorIdle /\ BandIdle /\ RunIdle

NextGrid == PlanGrid

SpecGrid == InitGrid /\ [][NextGrid]_vars

(***************************************************************************)
(* add_info_band (final.py 480-533).  A row of an image is a record: a     *)
(* row of the input ("img", with its pixels px), a row of a fresh          *)
(* Image.new ("blank"), or row n of the band layer pasted through its own  *)
(* alpha over a row whose pixels were px ("band").  The texts and the      *)
(* colour only decide what the band layer looks like.                      *)
(***************************************************************************)
MinHeight == 5

Pixels == {"p", "q"}

ImgRow(px) == [kind |-> "img", n |-> 0, px |-> px]

BlankRow == [kind |-> "blank", n |-> 0, px |-> "none"]

BandOver(n, under) == [kind |-> "band", n |-> n, px |-> under.px]

\* Image.new('RGBA', (width, height))
NewImage(height) == [y \in 1..height |-> BlankRow]

\* image.crop((0, top, width, bottom))
crop(img, top, bottom) == SubSeq(img, top + 1, bottom)

\* dest.paste(src, (0, y)): rows of src replace rows of dest, clipped
paste(dest, src, y) ==
    [i \in 1..Len(dest) |->
        IF i - 1 >= y /\ i - 1 < y + Len(src) THEN src[i - y] ELSE dest[i]]

\* dest.paste(band, (0, y), band) for a band layer of band_height rows
paste_band(dest, band_height, y) ==
    [i \in 1..Len(dest) |->
        IF i - 1 >= y /\ i - 1 < y + band_height
        THEN BandOver(i - y, dest[i]) ELSE dest[i]]

\* the band drawn over the image where it stands
add_info_band_overlay(img) ==
    LET height      == Len(img)
        band_height == BandArea(height)
        position    == (height - band_height) \div 2
    IN  paste_band(img, band_height, position)

add_info_band(img) ==
    LET height      == Len(img)
        band_height == BandArea(height)
        position    == (height - band_height) \div 2
        top         == paste(NewImage(height), crop(img, 0, position), 0)
        banded      == paste_band(top, band_height, position)
    IN  paste(banded, crop(img, position, height), position + band_height)

AddInfoBand ==
    /\ band_pc = "args"
    /\ final_image' = add_info_band(image)
    /\ band_pc' = "returned"
    /\ UNCHANGED <<image, colorVars, gridVars, runVars>>

InitBand ==
    /\ image \in UNION {[1..h -> {ImgRow(px) : px \in Pixels}] : h \in MinHeight..MaxHeight}
    /\ final_image = <<>>
    /\ band_pc = "args"
    /\ ColorIdle /\ GridIdle /\ RunIdle

NextBand == AddInfoBand

SpecBand == InitBand /\ [][NextBand]_vars

(***************************************************************************)
(* merge_images (final.py 536-624) and the folder loop (final.py 695-718). *)
(* A path is a record naming its folder and its place in the glob result   *)
(* and telling whether Image.open can decode it; a loaded image is named   *)
(* by the path it came from, and so is every copy of it.                   *)
(***************************************************************************)
Folders == UNION {[1..n -> BOOLEAN] : n \in 0..MaxPaths}

\* glob.glob(os.path.join(folder, '**', '*.png'), recursive=True)
image_paths(i) ==
    [j \in 1..Len(folder_list[i]) |->
        [folder |-> i, file |-> j, decodes |-> folder_list[i][j]]]

\* final.py 696: computed once, before the loop
output_folder == "Banners/Name_time"

OutputPath(dir) == <<dir, "final_output.png">>

\* final.py 584-592: the images that load, in path order
RECURSIVE LoadImages(_)
LoadImages(paths) ==
    IF Len(paths) = 0 THEN <<>>
    ELSE IF Head(paths).decodes
         THEN <<[folder |-> Head(paths).folder, file |-> Head(paths).file]>>
                 \o LoadImages(Tail(paths))
         ELSE LoadImages(Tail(paths))

Range(f) == {f[i] : i \in DOMAIN f}

\* the draws counted from the number of paths instead of len(placed_images)
MissingFromTotal(paths) ==
    GridRows(Len(paths), GridColumns(Len(paths))) * GridColumns(Len(paths))
        - Len(paths)

\* the padding loop running once too often
MissingPlusOne(paths) ==
    GridRows(Len(paths), GridColumns(Len(paths))) * GridColumns(Len(paths))
        - Len(LoadImages(paths)) + 1

\* the number of random.choice draws of final.py 595-596
Missing(paths) ==
    GridRows(Len(paths), GridColumns(Len(paths))) * GridColumns(Len(paths))
        - Len(LoadImages(paths))

\* the possible results of the draws: each is a copy of a loaded image;
\* nothing is drawn from an empty placed_images
Draws(paths) ==
    IF Missing(paths) <= 0 \/ Len(LoadImages(paths)) = 0 THEN {<<>>}
    ELSE [1..Missing(paths) -> Range(LoadImages(paths))]

\* os.makedirs and final_image.save (final.py 623-624)
Save(files, path, data) ==
    {f \in files : f.path # path} \cup {[path |-> path, data |-> data]}

\* merge_images with os.makedirs moved ahead of the empty-list check
merge_images_mkdir_first(input_paths, out_dir, draws, fs_dirs, fs_files) ==
    IF Len(input_paths) = 0
    THEN [outcome |-> "EmptyInput", placed |-> <<>>,
          dirs |-> fs_dirs \cup {out_dir}, files |-> fs_files]
    ELSE IF Missing(input_paths) > 0 /\ Len(LoadImages(input_paths)) = 0
    THEN [outcome |-> "IndexError", placed |-> <<>>,
          dirs |-> fs_dirs \cup {out_dir}, files |-> fs_files]
    ELSE LET placed == LoadImages(input_paths) \o draws
         IN  [outcome |-> "saved",
              placed  |-> placed,
              dirs    |-> fs_dirs \cup {out_dir},
              files   |-> Save(fs_files, OutputPath(out_dir),
                               [columns |-> GridColumns(Len(input_paths)),
                                cells   |-> placed])]

\* merge_images: what the call does to the file system and how it ends.
\* "IndexError" is random.choice raising on an empty placed_images.
merge_images(input_paths, out_dir, draws, fs_dirs, fs_files) ==
    IF Len(input_paths) = 0
    THEN [outcome |-> "EmptyInput", placed |-> <<>>, dirs |-> fs_dirs, files |-> fs_files]
    ELSE IF Missing(input_paths) > 0 /\ Len(LoadImages(input_paths)) = 0
    THEN [outcome |-> "IndexError", placed |-> <<>>, dirs |-> fs_dirs, files |-> fs_files]
    ELSE LET placed == LoadImages(input_paths) \o draws
         IN  [outcome |-> "saved",
              placed  |-> placed,
              dirs    |-> fs_dirs \cup {out_dir},
              files   |-> Save(fs_files, OutputPath(out_dir),
                               [columns |-> GridColumns(Len(input_paths)),
                                cells   |-> placed])]

\* one pass of the for loop of final.py 705-716; an exception leaving
\* merge_images ends the program
ProcessFolder ==
    /\ run_pc = "loop"
    /\ folder_idx <= Len(folder_list)
    /\ \E draws \in Draws(image_paths(folder_idx)) :
          LET r == merge_images(image_paths(folder_idx), output_folder, draws, dirs, disk)
          IN  /\ outcomes' = Append(outcomes, r.outcome)
              /\ placed_images' = r.placed
              /\ dirs' = r.dirs
              /\ disk' = r.files
              /\ IF r.outcome = "IndexError"
                 THEN run_pc' = "crashed" /\ folder_idx' = folder_idx
                 ELSE run_pc' = "loop" /\ folder_idx' = folder_idx + 1
    /\ UNCHANGED <<folder_list, colorVars, gridVars, bandVars>>

\* final.py 718
Finish ==
    /\ run_pc = "loop"
    /\ folder_idx > Len(folder_list)
    /\ run_pc' = "done"
    /\ UNCHANGED <<folder_list, folder_idx, outcomes, placed_images, dirs, disk,
                   colorVars, gridVars, bandVars>>

InitRun ==
    /\ folder_list \in UNION {[1..k -> Folders] : k \in 0..MaxFolders}
    /\ folder_idx = 1 /\ run_pc = "loop"
    /\ outcomes = <<>> /\ placed_images = <<>> /\ dirs = {} /\ disk = {}
    /\ ColorIdle /\ GridIdle /\ BandIdle

NextRun == ProcessFolder \/ Finish

SpecRun == InitRun /\ [][NextRun]_vars

(***************************************************************************)
(* The same folder listed twice in folder_list.txt: merge_images composes  *)
(* the same path list two times in one run.                                *)
(***************************************************************************)
InitTwice ==
    /\ folder_list \in {<<f, f>> : f \in UNION {[1..n -> BOOLEAN] : n \in 0..MaxSamePaths}}
    /\ folder_idx = 1 /\ run_pc = "loop"
    /\ outcomes = <<>> /\ placed_images = <<>> /\ dirs = {} /\ disk = {}
    /\ ColorIdle /\ GridIdle /\ BandIdle

SpecTwice == InitTwice /\ [][NextRun]_vars

(***************************************************************************)
(* Properties of the colour parser, checked under SpecColor.               *)
(***************************************************************************)
Parsed == color_pc # "typed"

Normalized == lower(strip(color_input))

SixHexDigits(s) == Len(s) = 6 /\ \A i \in 1..6 : s[i] \in DigitSet(16)

\* the hex grammar: an optional "#", then exactly six hexadecimal digits
IsHexText(s) == SixHexDigits(s) \/ (startswith(s, <<"#">>) /\ SixHexDigits(Tail(s)))

\* the byte-pair decoding of six hexadecimal digits
BytePairs(s) == [n \in 1..3 |-> 16 * DigitValue(s[2 * n - 1]) + DigitValue(s[2 * n])]

RgbWrapper == <<"r", "g", "b", "(">>

CmykWrapper == <<"c", "m", "y", "k", "(">>

\* the text between wrapper w and ")" (the whole text when w is empty)
Inner(w, s) ==
    IF w = <<>> THEN s
    ELSE IF startswith(s, w) /\ endswith(s, <<")">>)
    THEN SubSeq(s, Len(w) + 1, Len(s) - 1)
    ELSE <<>>

IsNumToken(tok) == \E v \in NumValues : IntToStr(v) = tok

TokenValue(tok) == CHOOSE v \in NumValues : IntToStr(v) = tok

\* s is exactly w v1,...,vn ) for n decimal integers of NumValues
IsNumText(w, s, n) ==
    LET f == split(Inner(w, s), ",")
    IN  /\ Len(f) = n
        /\ \A i \in 1..n : IsNumToken(f[i])
        /\ s = NumText(w, [i \in 1..n |-> TokenValue(f[i])])

NumbersOf(w, s) ==
    LET f == split(Inner(w, s), ",") IN [i \in 1..Len(f) |-> TokenValue(f[i])]

AllIn(vs, lo, hi) == \A i \in 1..Len(vs) : lo <= vs[i] /\ vs[i] <= hi

\* a field that reads as a decimal integer within [lo, hi]
IsNumberIn(tok, lo, hi) ==
    LET n == PyInt(tok, 10) IN n.exc = "" /\ lo <= n.val /\ n.val <= hi

\* s is w f1,...,fn ) with every field a number within [lo, hi]
IsFieldsText(w, s, n, lo, hi) ==
    LET f == split(Inner(w, s), ",")
    IN  /\ w # <<>> => (startswith(s, w) /\ endswith(s, <<")">>))
        /\ Len(f) = n
        /\ \A i \in 1..n : IsNumberIn(f[i], lo, hi)

\* the accepted grammars of the colour text, after trimming and lowering
AcceptedGrammar(s) ==
    \/ IsHexText(s)
    \/ \E w \in {<<>>, RgbWrapper} : IsFieldsText(w, s, 3, 0, 255)
    \/ \E w \in {<<>>, CmykWrapper} : IsFieldsText(w, s, 4, 0, 100)

\* C5: the bare text "c,m,y,k" with c,m,y,k in [0,100] gives the colour that
\* "cmyk(c,m,y,k)" gives; "0,0,0,0" is white and "0,0,0,100" is black.
C5_BareCmykAsWrapped ==
    Parsed =>
      /\ (IsNumText(<<>>, Normalized, 4) /\ AllIn(NumbersOf(<<>>, Normalized), 0, 100))
            => /\ theme_color.kind = "color"
               /\ theme_color = parse_color_input(Wrap(CmykWrapper, Normalized))
      /\ Normalized = NumText(<<>>, <<0, 0, 0, 0>>)
            => theme_color = Color(<<255, 255, 255>>)
      /\ Normalized = NumText(<<>>, <<0, 0, 0, 100>>)
            => theme_color = Color(<<0, 0, 0>>)

\* C6: a text that matches none of the accepted grammars is answered with
\* None and nothing is raised; in particular "#" followed by anything but
\* exactly six hexadecimal digits is answered with None.
C6_UnmatchedTextIsInvalid ==
    Parsed =>
      /\ color_pc # "crashed"
      /\ theme_color.kind # "raise"
      /\ ~AcceptedGrammar(Normalized) => theme_color = None
      /\ (startswith(Normalized, <<"#">>) /\ ~SixHexDigits(Tail(Normalized)))
            => theme_color = None

\* C7: a returned colour is a triple of integers in [0,255].
C7_ChannelsInRange ==
    (Parsed /\ theme_color.kind = "color") =>
      /\ Len(theme_color.rgb) = 3
      /\ \A n \in 1..3 : theme_color.rgb[n] \in 0..255

\* C8: exactly six hexadecimal digits, in either letter case, with or
\* without a leading "#", give the triple of the three digit pairs read as
\* bytes; "#1A2B3C" gives (26,43,60).
C8_HexBytePairs ==
    Parsed =>
      /\ SixHexDigits(Normalized)
            => theme_color = Color(BytePairs(Normalized))
      /\ (startswith(Normalized, <<"#">>) /\ SixHexDigits(Tail(Normalized)))
            => theme_color = Color(BytePairs(Tail(Normalized)))
      /\ color_input = <<"#", "1", "A", "2", "B", "3", "C">>
            => theme_color = Color(<<26, 43, 60>>)

C8_Witness ==
    /\ color_pc = "accepted"
    /\ color_input = <<"#", "1", "A", "2", "B", "3", "C">>
    /\ theme_color = Color(<<26, 43, 60>>)

\* C9: "rgb(r,g,b)" and the bare "r,g,b" give (r,g,b) unchanged when every
\* value is in [0,255], and None when a value is above 255 or below 0.
C9_RgbUnchangedOrInvalid ==
    Parsed =>
      \A w \in {<<>>, RgbWrapper} :
        IsNumText(w, Normalized, 3) =>
          LET v == NumbersOf(w, Normalized)
          IN  IF AllIn(v, 0, 255) THEN theme_color = Color(v) ELSE theme_color = None

C9_Witness ==
    /\ color_pc = "accepted"
    /\ color_input = NumText(RgbWrapper, <<255, 0, 80>>)
    /\ theme_color = Color(<<255, 0, 80>>)

(***************************************************************************)
(* Properties of the grid plan, checked under SpecGrid.                    *)
(***************************************************************************)
\* C10: columns is 2 up to 4 images, 3 up to 9, 4 up to 16 and otherwise the
\* ceiling of the square root; rows is the ceiling of n / columns; the
\* grid holds all n images and its last row is not empty; 1 gives 2x1,
\* 4 gives 2x2, 9 gives 3x3 and 10 gives 4 columns by 3 rows.
C10_GridPlan ==
    grid_pc = "planned" =>
      LET n == total_images
      IN  /\ n <= 4 => columns = 2
          /\ (4 < n /\ n <= 9) => columns = 3
          /\ (9 < n /\ n <= 16) => columns = 4
          /\ n > 16 => (columns * columns >= n /\ (columns - 1) * (columns - 1) < n)
          /\ columns * rows >= n
          /\ (rows - 1) * columns < n
          /\ n = 1 => (columns = 2 /\ rows = 1)
          /\ n = 4 => (columns = 2 /\ rows = 2)
          /\ n = 9 => (columns = 3 /\ rows = 3)
          /\ n = 10 => (columns = 4 /\ rows = 3)

C10_Witness ==
    grid_pc = "planned" /\ total_images = 17 /\ columns = 5 /\ rows = 4

(***************************************************************************)
(* Properties of add_info_band, checked under SpecBand.                    *)
(***************************************************************************)
bandHeight == BandArea(Len(image))

bandTop == (Len(image) - bandHeight) \div 2

SameSizeAndBand ==
    /\ Len(final_image) = Len(image)
    /\ \A y \in 0..(bandTop - 1) : final_image[y + 1] = image[y + 1]
    /\ \A y \in bandTop..(bandTop + bandHeight - 1) : final_image[y + 1].kind = "band"

\* C4: the result has the size of the input; the rows above the band are
\* the input rows, the rows of the band region are the band, and every row
\* y below the band is input row y.
C4_RowsOutsideBandUnchanged ==
    band_pc = "returned" =>
      /\ SameSizeAndBand
      /\ \A y \in (bandTop + bandHeight)..(Len(image) - 1) :
            final_image[y + 1] = image[y + 1]

\* C4 as amended: the result has the size of the input; the rows above the
\* band are the input rows, the rows of the band region are the band drawn
\* on an empty layer, and every row y below the band is input row
\* y - bandHeight (the input from bandTop on moves down by bandHeight).
C4_LowerPartShifted ==
    band_pc = "returned" =>
      /\ SameSizeAndBand
      /\ \A y \in bandTop..(bandTop + bandHeight - 1) :
            final_image[y + 1] = BandOver(y - bandTop + 1, BlankRow)
      /\ \A y \in (bandTop + bandHeight)..(Len(image) - 1) :
            final_image[y + 1] = image[y - bandHeight + 1]

C4_Witness ==
    /\ band_pc = "returned"
    /\ Len(image) = 10
    /\ bandHeight = 2
    /\ image[5].px # image[7].px
    /\ final_image[7] = image[5]

(***************************************************************************)
(* Properties of merge_images and of the folder loop, checked under        *)
(* SpecRun.                                                                *)
(***************************************************************************)
\* the folder the last merge_images call was given
LastFolder == folder_list[Len(outcomes)]

AllLoadsFail(folder) == Len(folder) > 0 /\ \A j \in 1..Len(folder) : ~folder[j]

ProducesBanner(folder) == \E j \in 1..Len(folder) : folder[j]

ClassifiedOutcomes == {"EmptyInput", "AllLoadsFailed", "saved"}

\* C1: a call with a non-empty path list of which no path decodes ends with
\* the AllLoadsFailed condition, and no call ends with an exception outside
\* the classified conditions.
C1_AllLoadsFailedClassified ==
    /\ \A i \in 1..Len(outcomes) : outcomes[i] \in ClassifiedOutcomes
    /\ (Len(outcomes) > 0 /\ AllLoadsFail(LastFolder))
          => outcomes[Len(outcomes)] = "AllLoadsFailed"

\* C2: the run never stops before the end of the folder list: it does not
\* crash, and when it is over every folder has been passed to merge_images.
C2_EveryFolderProcessed ==
    /\ run_pc # "crashed"
    /\ run_pc = "done" => Len(outcomes) = Len(folder_list)

\* C3: every folder processed so far that produced a banner still has its
\* banner on disk, one file per such folder.
C3_OneFilePerFolder ==
    LET done == {i \in 1..Len(outcomes) : ProducesBanner(folder_list[i])}
    IN  /\ Cardinality(disk) = Cardinality(done)
        /\ \A i \in done : \E f \in disk : \A n \in 1..Len(f.data.cells) :
              f.data.cells[n].folder = i

\* the 1-based places of the paths of a folder that decode
Decodable(folder) == {j \in 1..Len(folder) : folder[j]}

\* the cells of the grid planned for n images
GridCells(n) == GridRows(n, GridColumns(n)) * GridColumns(n)

\* C11: a call with a non-empty path list of which at least one path decodes
\* does not raise; placed_images then has exactly rows x columns entries,
\* the loaded images come first in path order, and every entry after them
\* is a copy of a loaded image.
C11_PaddedToFullGrid ==
    (Len(outcomes) > 0 /\ ProducesBanner(LastFolder)) =>
      LET i      == Len(outcomes)
          loaded == Cardinality(Decodable(LastFolder))
      IN  /\ outcomes[i] = "saved"
          /\ run_pc # "crashed"
          /\ Len(placed_images) = GridCells(Len(LastFolder))
          /\ \A k \in 1..loaded :
                /\ placed_images[k].folder = i
                /\ placed_images[k].file \in Decodable(LastFolder)
                /\ Cardinality({j \in Decodable(LastFolder) :
                                   j <= placed_images[k].file}) = k
          /\ \A k \in (loaded + 1)..Len(placed_images) :
                \E m \in 1..loaded : placed_images[k] = placed_images[m]

C11_Witness ==
    /\ Len(outcomes) > 0
    /\ LastFolder = <<FALSE, TRUE, TRUE>>
    /\ outcomes[Len(outcomes)] = "saved"
    /\ Len(placed_images) = 4
    /\ placed_images[3].file = 3
    /\ placed_images[4].file = 2

\* C12: a merge_images call with an empty path list reports the empty input
\* and leaves the file system as it was: no directory is created and no
\* file is written or changed.
C12_EmptyInputWritesNothing ==
    [][(/\ run_pc = "loop"
        /\ folder_idx <= Len(folder_list)
        /\ Len(folder_list[folder_idx]) = 0)
          => /\ outcomes' = Append(outcomes, "EmptyInput")
             /\ dirs' = dirs
             /\ disk' = disk]_vars

C12_Witness ==
    /\ outcomes = <<"EmptyInput">>
    /\ folder_list[1] = <<>>
    /\ dirs = {}
    /\ disk = {}

(***************************************************************************)
(* Properties of composing the same folder twice, checked under SpecTwice. *)
(***************************************************************************)
\* what final_output.png shows: the grid width and, cell by cell, the place
\* in the path list of the image put there
Shown(files) ==
    {[columns |-> f.data.columns,
      cells   |-> [k \in 1..Len(f.data.cells) |-> f.data.cells[k].file]] :
        f \in {g \in files : g.path = OutputPath(output_folder)}}

\* the second call is about to start, on the path list the first call
\* turned into a banner
SecondCallDue ==
    /\ run_pc = "loop"
    /\ folder_idx = 2
    /\ outcomes = <<"saved">>
    /\ folder_list[1] = folder_list[2]

\* C13: when the number of paths equals rows x columns, the second call
\* writes the output the first call wrote.
C13_ExactPathCountSameOutput ==
    [][(SecondCallDue /\ Len(folder_list[2]) = GridCells(Len(folder_list[2])))
          => (outcomes' = <<"saved", "saved">> /\ Shown(disk') = Shown(disk))]_vars

\* C13 as amended: when the number of paths equals rows x columns and every
\* path decodes, the second call writes the output the first call wrote.
C13_FullGridLoadedSameOutput ==
    [][(/\ SecondCallDue
        /\ Len(folder_list[2]) = GridCells(Len(folder_list[2]))
        /\ \A j \in 1..Len(folder_list[2]) : folder_list[2][j])
          => (outcomes' = <<"saved", "saved">> /\ Shown(disk') = Shown(disk))]_vars

C13_Witness ==
    /\ folder_list = <<<<TRUE, TRUE, TRUE, TRUE>>, <<TRUE, TRUE, TRUE, TRUE>>>>
    /\ outcomes = <<"saved", "saved">>
    /\ Len(placed_images) = 4
    /\ Shown(disk) = {[columns |-> 2, cells |-> <<1, 2, 3, 4>>]}

(***************************************************************************)
(* The planned grid against the canvas and the band splice, checked under  *)
(* SpecGrid.                                                               *)
(***************************************************************************)
\* right edge of the last column and bottom edge of the last row, from the
\* cell origins of final.py 603-604
GridRight == border_spacing + columns * image_width + (columns - 1) * image_spacing

GridBottom == border_spacing + rows * image_height + (rows - 1) * image_spacing

\* pixel row y (0-based) of the canvas lies in a grid cell
InCellRow(y) ==
    \E r \in 0..(rows - 1) :
        LET top == border_spacing + r * (image_height + image_spacing)
        IN  top <= y /\ y < top + image_height

\* the canvas handed to add_info_band: cell rows and empty rows
GridCanvas ==
    [y \in 1..image_size |-> IF InCellRow(y - 1) THEN ImgRow("p") ELSE BlankRow]

CellRowCount(img) == Cardinality({y \in 1..Len(img) : img[y].kind = "img"})

\* C14: the grid ends at or before canvas - border on the right; its last
\* row ends at or before canvas - border without a band and at or before
\* canvas - int(0.20 x canvas) - border with a band, so the band splice
\* pushes no cell row off the bottom of the canvas.
C14_GridFitsReservedArea ==
    grid_pc = "planned" =>
      /\ GridRight <= image_size - border_spacing
      /\ ~include_band => GridBottom <= image_size - border_spacing
      /\ include_band =>
            /\ GridBottom <= image_size - BandArea(image_size) - border_spacing
            /\ CellRowCount(add_info_band(GridCanvas)) = rows * image_height
            /\ CellRowCount(GridCanvas) = rows * image_height

C14_Witness ==
    /\ grid_pc = "planned"
    /\ include_band
    /\ total_images = 10
    /\ image_size = 2000
    /\ image_height = 520
    /\ GridBottom = 1590

====
